---- MODULE Spec2Model ----
(***************************************************************************)
(* Model of the AssetTransfer chaincode (team3/lib/assetTransfer.js): the  *)
(* world state it reads and writes through ctx.stub, its transaction       *)
(* functions, and the JSON encodings it stores and returns.                *)
(***************************************************************************)
EXTENDS Integers, Sequences, FiniteSets, TLC

(***************************************************************************)
(* Bounds of the model.                                                    *)
(***************************************************************************)
\* how many distinct keys (rid arguments) the callers use
NumRIDs == 2
\* how many distinct tuples (sid, bpm, hrv, time, team) the callers use
NumArgs == 2

(***************************************************************************)
(* JavaScript values.  A value is a record of one shape:                   *)
(*   kind "str":  a string; its characters are the atom s, or, for a       *)
(*                string that holds wire text, the token sequence text     *)
(*   kind "num":  a number, s is its decimal literal                       *)
(*   kind "obj":  an object, members is the sequence of its own            *)
(*                properties [key, val] in insertion order                 *)
(*   kind "arr":  an array, members holds its elements (key "")            *)
(*   kind "undef": undefined                                               *)
(***************************************************************************)
JSStr(s) == [kind |-> "str", s |-> s, text |-> <<>>, members |-> <<>>]
JSText(t) == [kind |-> "str", s |-> "", text |-> t, members |-> <<>>]
JSNum(s) == [kind |-> "num", s |-> s, text |-> <<>>, members |-> <<>>]
JSObj(ms) == [kind |-> "obj", s |-> "", text |-> <<>>, members |-> ms]
JSArr(ms) == [kind |-> "arr", s |-> "", text |-> <<>>, members |-> ms]
JSUndefined == [kind |-> "undef", s |-> "", text |-> <<>>, members |-> <<>>]
Member(k, v) == [key |-> k, val |-> v]

(***************************************************************************)
(* Wire text.  A text is a sequence of JSON tokens; a token is a           *)
(* punctuation mark, a string literal or a number literal.  Buffer.from    *)
(* and toString only change the carrier, so a buffer is the text it holds  *)
(* and the empty buffer is the empty sequence.                             *)
(***************************************************************************)
Punct(c) == [t |-> "punct", s |-> c, text |-> <<>>]
StrTok(v) == [t |-> "str", s |-> v.s, text |-> v.text]
NumTok(v) == [t |-> "num", s |-> v.s, text |-> <<>>]
KeyTok(k) == [t |-> "str", s |-> k, text |-> <<>>]

\* The property names the contract uses, in the order of Array.prototype.sort
\* without a comparator (UTF-16 code units: upper case before lower case).
KeyOrder == <<"BPM", "HRV", "RID", "Readings", "SID", "TIme", "Team", "Time", "docType">>
KeyRank(k) == CHOOSE i \in 1..Len(KeyOrder) : KeyOrder[i] = k
KeyLess(a, b) == KeyRank(a) < KeyRank(b)

\* Object.keys(obj).sort(): the members of an object ordered by key.
RECURSIVE InsertMember(_, _)
InsertMember(sorted, m) ==
    IF sorted = <<>> THEN <<m>>
    ELSE IF KeyLess(m.key, Head(sorted).key) THEN <<m>> \o sorted
    ELSE <<Head(sorted)>> \o InsertMember(Tail(sorted), m)

RECURSIVE SortMembers(_)
SortMembers(ms) ==
    IF ms = <<>> THEN <<>>
    ELSE InsertMember(SortMembers(Tail(ms)), Head(ms))

\* sort-keys-recursive: a copy of the value with the keys of every object,
\* at every nesting level, in sorted order.
RECURSIVE SortKeysMembers(_)
RECURSIVE sortKeysRecursive(_)
SortKeysMembers(ms) ==
    IF ms = <<>> THEN <<>>
    ELSE <<Member(Head(ms).key, sortKeysRecursive(Head(ms).val))>>
            \o SortKeysMembers(Tail(ms))

sortKeysRecursive(v) ==
    IF v.kind = "obj" THEN JSObj(SortMembers(SortKeysMembers(v.members)))
    ELSE v

\* JSON.stringify: compact text, object properties in insertion order, a
\* property whose value is undefined left out.
RECURSIVE JSONstringifyMembers(_, _)
RECURSIVE JSONstringifyElements(_, _)
RECURSIVE JSONstringify(_)
JSONstringifyMembers(ms, first) ==
    IF ms = <<>> THEN <<>>
    ELSE IF Head(ms).val.kind = "undef" THEN JSONstringifyMembers(Tail(ms), first)
    ELSE (IF first THEN <<>> ELSE <<Punct(",")>>)
            \o <<KeyTok(Head(ms).key), Punct(":")>>
            \o JSONstringify(Head(ms).val)
            \o JSONstringifyMembers(Tail(ms), FALSE)

JSONstringifyElements(ms, first) ==
    IF ms = <<>> THEN <<>>
    ELSE (IF first THEN <<>> ELSE <<Punct(",")>>)
            \o JSONstringify(Head(ms).val)
            \o JSONstringifyElements(Tail(ms), FALSE)

JSONstringify(v) ==
    CASE v.kind = "str" -> <<StrTok(v)>>
      [] v.kind = "num" -> <<NumTok(v)>>
      [] v.kind = "obj" -> <<Punct("{")>> \o JSONstringifyMembers(v.members, TRUE) \o <<Punct("}")>>
      [] v.kind = "arr" -> <<Punct("[")>> \o JSONstringifyElements(v.members, TRUE) \o <<Punct("]")>>
      [] OTHER -> <<>>

\* json-stringify-deterministic: as JSON.stringify, but the properties of
\* every object are written in sorted key order.
RECURSIVE stringifyMembers(_, _)
RECURSIVE stringify(_)
stringifyMembers(ms, first) ==
    IF ms = <<>> THEN <<>>
    ELSE IF Head(ms).val.kind = "undef" THEN stringifyMembers(Tail(ms), first)
    ELSE (IF first THEN <<>> ELSE <<Punct(",")>>)
            \o <<KeyTok(Head(ms).key), Punct(":")>>
            \o stringify(Head(ms).val)
            \o stringifyMembers(Tail(ms), FALSE)

stringify(v) ==
    CASE v.kind = "obj" -> <<Punct("{")>> \o stringifyMembers(SortMembers(v.members), TRUE) \o <<Punct("}")>>
      [] OTHER -> JSONstringify(v)

\* JSON.parse: the value a text denotes, or a SyntaxError.  ParseValue reads
\* one value starting at token i and reports the position after it.
ParseFail == [ok |-> FALSE, val |-> JSUndefined, next |-> 0]
IsPunct(toks, i, c) == i <= Len(toks) /\ toks[i].t = "punct" /\ toks[i].s = c

\* obj[key] = val: a repeated key keeps its place and takes the later value
SetMember(ms, k, v) ==
    IF \E i \in 1..Len(ms) : ms[i].key = k
    THEN [i \in 1..Len(ms) |-> IF ms[i].key = k THEN Member(k, v) ELSE ms[i]]
    ELSE Append(ms, Member(k, v))

RECURSIVE ParseValue(_, _)
RECURSIVE ParseMembers(_, _, _)
RECURSIVE ParseElements(_, _, _)
ParseMembers(toks, i, acc) ==
    IF ~(i + 1 <= Len(toks) /\ toks[i].t = "str" /\ toks[i].text = <<>> /\ IsPunct(toks, i + 1, ":"))
    THEN ParseFail
    ELSE LET r == ParseValue(toks, i + 2)
             got == SetMember(acc, toks[i].s, r.val)
         IN  IF ~r.ok THEN ParseFail
             ELSE IF IsPunct(toks, r.next, ",") THEN ParseMembers(toks, r.next + 1, got)
             ELSE IF IsPunct(toks, r.next, "}")
                  THEN [ok |-> TRUE, val |-> JSObj(got), next |-> r.next + 1]
             ELSE ParseFail

ParseElements(toks, i, acc) ==
    LET r == ParseValue(toks, i)
        got == Append(acc, Member("", r.val))
    IN  IF ~r.ok THEN ParseFail
        ELSE IF IsPunct(toks, r.next, ",") THEN ParseElements(toks, r.next + 1, got)
        ELSE IF IsPunct(toks, r.next, "]")
             THEN [ok |-> TRUE, val |-> JSArr(got), next |-> r.next + 1]
        ELSE ParseFail

ParseValue(toks, i) ==
    IF i > Len(toks) THEN ParseFail
    ELSE IF toks[i].t = "str"
         THEN [ok |-> TRUE, val |-> [kind |-> "str", s |-> toks[i].s, text |-> toks[i].text, members |-> <<>>], next |-> i + 1]
    ELSE IF toks[i].t = "num"
         THEN [ok |-> TRUE, val |-> JSNum(toks[i].s), next |-> i + 1]
    ELSE IF IsPunct(toks, i, "{")
         THEN IF IsPunct(toks, i + 1, "}")
              THEN [ok |-> TRUE, val |-> JSObj(<<>>), next |-> i + 2]
              ELSE ParseMembers(toks, i + 1, <<>>)
    ELSE IF IsPunct(toks, i, "[")
         THEN IF IsPunct(toks, i + 1, "]")
              THEN [ok |-> TRUE, val |-> JSArr(<<>>), next |-> i + 2]
              ELSE ParseElements(toks, i + 1, <<>>)
    ELSE ParseFail

JSONparse(text) ==
    LET r == ParseValue(text, 1)
    IN  IF r.ok /\ r.next = Len(text) + 1
        THEN [ok |-> TRUE, val |-> r.val]
        ELSE [ok |-> FALSE, val |-> JSUndefined]

(***************************************************************************)
(* Arguments the callers pass.                                             *)
(***************************************************************************)
RIDPool == <<"101", "200", "300">>
RIDs == {RIDPool[i] : i \in 1..NumRIDs}

\* (sid, bpm, hrv, time, team): typed values as a test passes them, the
\* strings a ledger client passes, and the values of the seed record
ArgsPool ==
    <<[sid |-> JSStr("5"), bpm |-> JSNum("88"), hrv |-> JSNum("12"),
       time |-> JSStr("2024-01-01T00:00:00.000Z"), team |-> JSStr("team3")],
      [sid |-> JSStr("7"), bpm |-> JSStr("72"), hrv |-> JSStr("9"),
       time |-> JSStr("2024-02-02T08:00:00.000Z"), team |-> JSStr("team5")],
      [sid |-> JSStr("1"), bpm |-> JSNum("100"), hrv |-> JSNum("10"),
       time |-> JSStr("2023-11-04T15:30:00.000Z"), team |-> JSStr("team3")]>>
Args == {ArgsPool[i] : i \in 1..NumArgs}
NoArgs == [sid |-> JSUndefined, bpm |-> JSUndefined, hrv |-> JSUndefined,
           time |-> JSUndefined, team |-> JSUndefined]

(***************************************************************************)
(* The world state behind ctx.stub: a map from the keys present to the     *)
(* bytes stored under them.                                                *)
(***************************************************************************)
\* ctx.stub.getState: the bytes under the key, the empty buffer when absent
getState(st, key) == IF key \in DOMAIN st THEN st[key] ELSE <<>>
putState(st, key, value) ==
    [k \in DOMAIN st \cup {key} |-> IF k = key THEN value ELSE st[k]]
deleteState(st, key) == [k \in DOMAIN st \ {key} |-> st[k]]

\* ctx.stub.getStateByRange('', ''): every key present, in key order
RECURSIVE RangeFrom(_, _)
RangeFrom(st, i) ==
    IF i > Len(RIDPool) THEN <<>>
    ELSE (IF RIDPool[i] \in DOMAIN st THEN <<RIDPool[i]>> ELSE <<>>) \o RangeFrom(st, i + 1)
getStateByRange(st) == RangeFrom(st, 1)

(***************************************************************************)
(* The transaction functions.  Each is the result of one invocation on     *)
(* world state st: the error thrown (<<>> when none), the value returned   *)
(* and the world state it leaves.                                          *)
(***************************************************************************)
NoError == <<>>
AlreadyExists(rid) == <<"The asset ", rid, " already exists">>
DoesNotExist(rid) == <<"The asset ", rid, " does not exist">>
Outcome(err, ret, st) == [err |-> err, ret |-> ret, store |-> st]

\* Encode with the text the caller gets, JSON.stringify(asset), stored instead
Encode_InsertionOrder(asset) == JSONstringify(asset)

\* Buffer.from(stringify(sortKeysRecursive(asset))), the bytes written
Encode(asset) == stringify(sortKeysRecursive(asset))

SeedAsset ==
    JSObj(<<Member("RID", JSStr("101")),
            Member("SID", JSStr("1")),
            Member("Readings", JSObj(<<Member("BPM", JSNum("100")), Member("HRV", JSNum("10"))>>)),
            Member("Time", JSStr("2023-11-04T15:30:00.000Z")),
            Member("Team", JSStr("team3"))>>)

\* InitLedger that seeds only a key that is absent
InitLedger_IfAbsent(st) ==
    IF "101" \in DOMAIN st THEN Outcome(NoError, <<>>, st)
    ELSE Outcome(NoError, <<>>, putState(st, "101", stringify(JSObj(SetMember(SeedAsset.members, "docType", JSStr("asset"))))))

InitLedger(st) ==
    LET asset == JSObj(SetMember(SeedAsset.members, "docType", JSStr("asset")))
    IN  Outcome(NoError, <<>>, putState(st, asset.members[1].val.s, Encode(asset)))

\* the existence test without the length: a buffer, even empty, is truthy
NonEmpty_Truthy(assetJSON) == TRUE

\* assetJSON && assetJSON.length > 0
NonEmpty(assetJSON) == Len(assetJSON) > 0

AssetExists(st, rid) ==
    LET assetJSON == getState(st, rid)
    IN  NonEmpty(assetJSON)

\* NewAsset with the RID taken from the sid argument
NewAsset_RidFromSid(rid, a) ==
    JSObj(<<Member("RID", a.sid),
            Member("SID", a.sid),
            Member("Readings", JSObj(<<Member("BPM", a.bpm), Member("HRV", a.hrv)>>)),
            Member("Time", a.time),
            Member("Team", a.team)>>)

\* NewAsset with the two readings exchanged
NewAsset_SwappedReadings(rid, a) ==
    JSObj(<<Member("RID", JSStr(rid)),
            Member("SID", a.sid),
            Member("Readings", JSObj(<<Member("BPM", a.hrv), Member("HRV", a.bpm)>>)),
            Member("Time", a.time),
            Member("Team", a.team)>>)

NewAsset(rid, a) ==
    JSObj(<<Member("RID", JSStr(rid)),
            Member("SID", a.sid),
            Member("Readings", JSObj(<<Member("BPM", a.bpm), Member("HRV", a.hrv)>>)),
            Member("Time", a.time),
            Member("Team", a.team)>>)

\* CreateAsset without the existence check
CreateAsset_NoCheck(st, rid, a) ==
    Outcome(NoError, JSONstringify(NewAsset(rid, a)), putState(st, rid, Encode(NewAsset(rid, a))))

CreateAsset(st, rid, a) ==
    IF AssetExists(st, rid) THEN Outcome(AlreadyExists(rid), <<>>, st)
    ELSE LET asset == NewAsset(rid, a)
         IN  Outcome(NoError, JSONstringify(asset), putState(st, rid, Encode(asset)))

ReadAsset(st, rid) ==
    LET assetJSON == getState(st, rid)
    IN  IF Len(assetJSON) = 0 THEN Outcome(DoesNotExist(rid), <<>>, st)
        ELSE Outcome(NoError, assetJSON, st)

UpdatedAsset(rid, a) ==
    JSObj(<<Member("RID", JSStr(rid)),
            Member("SID", a.sid),
            Member("Readings", JSObj(<<Member("BPM", a.bpm), Member("HRV", a.hrv)>>)),
            Member("TIme", a.time),
            Member("Team", a.team)>>)

\* UpdateAsset that writes whether or not the key exists
UpdateAsset_Upsert(st, rid, a) ==
    Outcome(NoError, <<>>, putState(st, rid, Encode(UpdatedAsset(rid, a))))

UpdateAsset(st, rid, a) ==
    IF ~AssetExists(st, rid) THEN Outcome(DoesNotExist(rid), <<>>, st)
    ELSE Outcome(NoError, <<>>, putState(st, rid, Encode(UpdatedAsset(rid, a))))

\* DeleteAsset that checks and returns without calling deleteState
DeleteAsset_NoDelete(st, rid) ==
    IF ~AssetExists(st, rid) THEN Outcome(DoesNotExist(rid), <<>>, st)
    ELSE Outcome(NoError, <<>>, st)

DeleteAsset(st, rid) ==
    IF ~AssetExists(st, rid) THEN Outcome(DoesNotExist(rid), <<>>, st)
    ELSE Outcome(NoError, <<>>, deleteState(st, rid))

\* the loop of GetAllAssets: one record per entry of the iterator, the parsed
\* value or, when JSON.parse throws, the text itself
RECURSIVE DrainIterator(_, _, _)
DrainIterator(st, keys, allResults) ==
    IF keys = <<>> THEN allResults
    ELSE LET strValue == st[Head(keys)]
             parsed == JSONparse(strValue)
             record == IF parsed.ok THEN parsed.val ELSE JSText(strValue)
         IN  DrainIterator(st, Tail(keys), Append(allResults, Member("", record)))

\* GetAllAssets without the try/catch around JSON.parse
GetAllAssets_NoCatch(st) ==
    IF \E k \in DOMAIN st : ~JSONparse(st[k]).ok
    THEN Outcome(<<"SyntaxError">>, <<>>, st)
    ELSE Outcome(NoError, JSONstringify(JSArr(DrainIterator(st, getStateByRange(st), <<>>))), st)

GetAllAssets(st) ==
    LET allResults == DrainIterator(st, getStateByRange(st), <<>>)
    IN  Outcome(NoError, JSONstringify(JSArr(allResults)), st)

(***************************************************************************)
(* State.                                                                  *)
(*   store  the world state                                                *)
(*   last   the last invocation that ran to completion on its own: its     *)
(*          name, arguments and outcome, and the world state it started    *)
(*          from                                                           *)
(*   pc, seen, targs   two CreateAsset invocations in flight together:     *)
(*          where each stands, the bytes its getState returned and the     *)
(*          arguments it was submitted with                                *)
(***************************************************************************)
VARIABLES store, last, pc, seen, targs
vars == <<store, last, pc, seen, targs>>
txvars == <<pc, seen, targs>>

Procs == {"tx1", "tx2"}

Call(op, rid, a, out, exists, pre) ==
    [op |-> op, rid |-> rid, args |-> a, err |-> out.err, ret |-> out.ret,
     exists |-> exists, pre |-> pre]

NoCall == Call("none", "", NoArgs, Outcome(NoError, <<>>, <<>>), FALSE, <<>>)

InitTx ==
    /\ pc = [p \in Procs |-> "idle"]
    /\ seen = [p \in Procs |-> <<>>]
    /\ targs = [p \in Procs |-> [rid |-> "", a |-> NoArgs]]

Init ==
    /\ store = <<>>
    /\ last = NoCall
    /\ InitTx

Invoke(op, rid, a, out) ==
    /\ store' = out.store
    /\ last' = Call(op, rid, a, out, FALSE, store)
    /\ UNCHANGED txvars

DoInitLedger == Invoke("InitLedger", "", NoArgs, InitLedger(store))
DoCreateAsset == \E rid \in RIDs, a \in Args : Invoke("CreateAsset", rid, a, CreateAsset(store, rid, a))
DoReadAsset == \E rid \in RIDs : Invoke("ReadAsset", rid, NoArgs, ReadAsset(store, rid))
DoUpdateAsset == \E rid \in RIDs, a \in Args : Invoke("UpdateAsset", rid, a, UpdateAsset(store, rid, a))
DoDeleteAsset == \E rid \in RIDs : Invoke("DeleteAsset", rid, NoArgs, DeleteAsset(store, rid))
DoAssetExists ==
    \E rid \in RIDs :
        /\ store' = store
        /\ last' = Call("AssetExists", rid, NoArgs, Outcome(NoError, <<>>, store),
                        AssetExists(store, rid), store)
        /\ UNCHANGED txvars
DoGetAllAssets == Invoke("GetAllAssets", "", NoArgs, GetAllAssets(store))

Next ==
    \/ DoInitLedger
    \/ DoCreateAsset
    \/ DoReadAsset
    \/ DoUpdateAsset
    \/ DoDeleteAsset
    \/ DoAssetExists
    \/ DoGetAllAssets

\* invocations run one after another on a ledger that starts empty
Spec == Init /\ [][Next]_vars

(***************************************************************************)
(* The same invocations on a world state that already holds values this    *)
(* contract did not write (the namespace outlives a chaincode upgrade):    *)
(* texts that JSON.parse rejects.                                          *)
(***************************************************************************)
LegacyValues == {<<Punct("{"), KeyTok("RID")>>, <<KeyTok("RID"), Punct(":")>>}
LegacyStores == UNION {[D -> LegacyValues] : D \in SUBSET RIDs}

InitLegacy ==
    /\ store \in LegacyStores
    /\ last = NoCall
    /\ InitTx

SpecLegacy == InitLegacy /\ [][Next]_vars

(***************************************************************************)
(* Two CreateAsset invocations in flight against one store.  An            *)
(* invocation gives up control at each await: the getState of AssetExists  *)
(* and the putState are steps of their own, and what lies between two      *)
(* awaits runs without interruption.                                       *)
(***************************************************************************)
\* the client submits CreateAsset(rid, ...)
TxSubmit(p) ==
    /\ pc[p] = "idle"
    /\ \E rid \in RIDs, a \in Args : targs' = [targs EXCEPT ![p] = [rid |-> rid, a |-> a]]
    /\ pc' = [pc EXCEPT ![p] = "getState"]
    /\ UNCHANGED <<store, last, seen>>

\* await ctx.stub.getState(rid) inside AssetExists
TxGetState(p) ==
    /\ pc[p] = "getState"
    /\ seen' = [seen EXCEPT ![p] = getState(store, targs[p].rid)]
    /\ pc' = [pc EXCEPT ![p] = "checked"]
    /\ UNCHANGED <<store, last, targs>>

\* if (exists) throw new Error(...)
TxThrow(p) ==
    /\ pc[p] = "checked"
    /\ NonEmpty(seen[p])
    /\ pc' = [pc EXCEPT ![p] = "failed"]
    /\ UNCHANGED <<store, last, seen, targs>>

\* await ctx.stub.putState(rid, ...); return JSON.stringify(asset)
TxPutState(p) ==
    /\ pc[p] = "checked"
    /\ ~NonEmpty(seen[p])
    /\ store' = putState(store, targs[p].rid, Encode(NewAsset(targs[p].rid, targs[p].a)))
    /\ pc' = [pc EXCEPT ![p] = "done"]
    /\ UNCHANGED <<last, seen, targs>>

DoTxSubmit == \E p \in Procs : TxSubmit(p)
DoTxGetState == \E p \in Procs : TxGetState(p)
DoTxThrow == \E p \in Procs : TxThrow(p)
DoTxPutState == \E p \in Procs : TxPutState(p)

NextTx ==
    \/ DoTxSubmit
    \/ DoTxGetState
    \/ DoTxThrow
    \/ DoTxPutState

SpecTx == Init /\ [][NextTx]_vars

(***************************************************************************)
(* Reading records, for the properties below.                              *)
(***************************************************************************)
KeysOf(v) == {v.members[i].key : i \in 1..Len(v.members)}
HasKey(v, k) == v.kind = "obj" /\ k \in KeysOf(v)
Get(v, k) == (CHOOSE m \in {v.members[i] : i \in 1..Len(v.members)} : m.key = k).val

\* equality of values that disregards the order of the keys of objects
RECURSIVE SameValue(_, _)
SameValue(a, b) ==
    /\ a.kind = b.kind
    /\ Len(a.members) = Len(b.members)
    /\ IF a.kind = "obj"
       THEN /\ KeysOf(a) = KeysOf(b)
            /\ \A k \in KeysOf(a) : SameValue(Get(a, k), Get(b, k))
       ELSE IF a.kind = "arr"
       THEN \A i \in 1..Len(a.members) : SameValue(a.members[i].val, b.members[i].val)
       ELSE a.s = b.s /\ a.text = b.text

\* the record is an Asset of the data model with exactly these values
IsAssetOf(v, rid, a) ==
    /\ v.kind = "obj"
    /\ Len(v.members) = Cardinality(KeysOf(v))
    /\ KeysOf(v) = {"RID", "SID", "Readings", "Time", "Team"}
    /\ Get(v, "RID") = JSStr(rid)
    /\ Get(v, "SID") = a.sid
    /\ Get(v, "Readings").kind = "obj"
    /\ Len(Get(v, "Readings").members) = Cardinality(KeysOf(Get(v, "Readings")))
    /\ KeysOf(Get(v, "Readings")) = {"BPM", "HRV"}
    /\ Get(Get(v, "Readings"), "BPM") = a.bpm
    /\ Get(Get(v, "Readings"), "HRV") = a.hrv
    /\ Get(v, "Time") = a.time
    /\ Get(v, "Team") = a.team

Succeeded(op) == last.op = op /\ last.err = NoError

\* C1: CreateAsset on a rid whose stored value is present and non-empty fails
\* with the 'already exists' error and leaves the world state as it was; this
\* holds of the create that just ran and of any create the callers could
\* issue in the state reached.
C1_CreateExistingFails ==
    /\ (last.op = "CreateAsset" /\ Len(getState(last.pre, last.rid)) > 0)
          => (last.err = AlreadyExists(last.rid) /\ store = last.pre)
    /\ \A rid \in RIDs, a \in Args :
          Len(getState(store, rid)) > 0
             => CreateAsset(store, rid, a) = Outcome(AlreadyExists(rid), <<>>, store)

C1_Witness ==
    /\ last.op = "CreateAsset"
    /\ last.rid \in DOMAIN last.pre
    /\ last.err = AlreadyExists(last.rid)
    /\ Cardinality(DOMAIN store) > 1

\* C2: on a rid whose stored value is absent or empty, ReadAsset, UpdateAsset
\* and DeleteAsset each fail with the 'does not exist' error and leave every
\* key and value of the world state unchanged.
C2_MissingFails ==
    /\ (last.op \in {"ReadAsset", "UpdateAsset", "DeleteAsset"} /\ Len(getState(last.pre, last.rid)) = 0)
          => (last.err = DoesNotExist(last.rid) /\ store = last.pre)
    /\ \A rid \in RIDs :
          Len(getState(store, rid)) = 0
             => /\ ReadAsset(store, rid) = Outcome(DoesNotExist(rid), <<>>, store)
                /\ DeleteAsset(store, rid) = Outcome(DoesNotExist(rid), <<>>, store)
                /\ \A a \in Args : UpdateAsset(store, rid, a) = Outcome(DoesNotExist(rid), <<>>, store)

C2_Witness ==
    /\ last.op = "UpdateAsset"
    /\ last.rid \notin DOMAIN last.pre
    /\ last.err = DoesNotExist(last.rid)
    /\ DOMAIN store # {}

\* C3: after a successful CreateAsset(rid, sid, bpm, hrv, time, team), ReadAsset(rid)
\* succeeds and the text it returns decodes to a record with exactly the
\* fields RID, SID, Readings{BPM, HRV}, Time and Team holding the arguments,
\* which equals, up to key order, the record decoded from the text CreateAsset
\* returned.
C3_CreateThenRead ==
    Succeeded("CreateAsset") =>
        LET read == ReadAsset(store, last.rid)
            got == JSONparse(read.ret)
            returned == JSONparse(last.ret)
        IN  /\ read.err = NoError
            /\ read.store = store
            /\ got.ok
            /\ IsAssetOf(got.val, last.rid, last.args)
            /\ returned.ok
            /\ SameValue(got.val, returned.val)

\* the create's stored text and returned text differ in key order
C3_Witness ==
    /\ Succeeded("CreateAsset")
    /\ last.args.bpm.kind = "num"
    /\ ReadAsset(store, last.rid).ret # last.ret

\* C4: after a successful UpdateAsset(rid, sid, bpm, hrv, time, team) the value
\* under rid is the record a CreateAsset with those arguments stores: exactly
\* the fields RID, SID, Readings{BPM, HRV}, Time and Team with the given values.
C4_UpdateStoresAsset ==
    Succeeded("UpdateAsset") =>
        /\ store[last.rid] = Encode(NewAsset(last.rid, last.args))
        /\ JSONparse(store[last.rid]).ok
        /\ IsAssetOf(JSONparse(store[last.rid]).val, last.rid, last.args)

\* what every step does about deleted and absent keys
C5_DeleteStep ==
    /\ (last'.op = "DeleteAsset" /\ last'.err = NoError /\ last'.pre = store)
          => /\ ~AssetExists(store', last'.rid)
             /\ ReadAsset(store', last'.rid).err = DoesNotExist(last'.rid)
             /\ DeleteAsset(store', last'.rid).err = DoesNotExist(last'.rid)
             /\ \A a \in Args : UpdateAsset(store', last'.rid, a).err = DoesNotExist(last'.rid)
             /\ \A k \in (DOMAIN store \cup DOMAIN store') \ {last'.rid} :
                   k \in DOMAIN store /\ k \in DOMAIN store' /\ store'[k] = store[k]
    /\ \A rid \in RIDs :
          (~AssetExists(store, rid) /\ AssetExists(store', rid))
             => \/ last'.op = "CreateAsset" /\ last'.rid = rid /\ last'.err = NoError
                \/ last'.op = "InitLedger" /\ rid = "101"

\* C5: a successful DeleteAsset(rid) leaves a state in which AssetExists(rid)
\* is false and ReadAsset(rid), UpdateAsset(rid, ...) and a second
\* DeleteAsset(rid) fail with the 'does not exist' error, and in which every
\* other key has the value it had; and a key that is absent stays absent
\* through every step but a successful CreateAsset of that key or, for key
\* "101", an InitLedger.
C5_DeleteThenAbsent == [][C5_DeleteStep]_vars

C5_Witness ==
    /\ Succeeded("DeleteAsset")
    /\ last.rid \in DOMAIN last.pre
    /\ last.rid \notin DOMAIN store
    /\ DOMAIN store # {}

\* what GetAllAssets is to list for key k
EntryOf(st, k) ==
    IF JSONparse(st[k]).ok THEN JSONparse(st[k]).val ELSE JSText(st[k])

\* C6: the text GetAllAssets returns decodes to a list that holds one entry
\* for each key present in the world state and no other entry; the entry of
\* a key is the record its value decodes to, or, when the value does not
\* decode, the value's text as a string; the call does not fail.
C6_GetAllAssetsLists ==
    last.op = "GetAllAssets" =>
        /\ last.err = NoError
        /\ store = last.pre
        /\ LET listed == JSONparse(last.ret)
               n == Len(listed.val.members)
           IN  /\ listed.ok
               /\ listed.val.kind = "arr"
               /\ n = Cardinality(DOMAIN store)
               /\ \E f \in [1..n -> DOMAIN store] :
                     /\ \A k \in DOMAIN store : \E i \in 1..n : f[i] = k
                     /\ \A i \in 1..n : SameValue(listed.val.members[i].val, EntryOf(store, f[i]))

\* a listing of a record next to a value that does not decode, after a delete
C6_Witness ==
    /\ last.op = "GetAllAssets"
    /\ \E k \in DOMAIN store : ~JSONparse(store[k]).ok
    /\ \E k \in DOMAIN store : JSONparse(store[k]).ok
    /\ JSONparse(last.ret).ok

\* the keys whose stored value is present and non-empty
StoredRecords(st) == {k \in DOMAIN st : Len(st[k]) > 0}

\* C7: the record stored under a key has that key as its RID, so no two
\* stored records have the same RID, and a CreateAsset that succeeds wrote a
\* key that was absent.
C7_RidIsKey ==
    /\ \A k \in StoredRecords(store) :
          /\ JSONparse(store[k]).ok
          /\ HasKey(JSONparse(store[k]).val, "RID")
          /\ Get(JSONparse(store[k]).val, "RID") = JSStr(k)
    /\ \A j, k \in StoredRecords(store) :
          Get(JSONparse(store[j]).val, "RID") = Get(JSONparse(store[k]).val, "RID") => j = k
    /\ Succeeded("CreateAsset")
          => /\ last.rid \notin StoredRecords(last.pre)
             /\ StoredRecords(store) = StoredRecords(last.pre) \cup {last.rid}

C7_Witness ==
    /\ Succeeded("CreateAsset")
    /\ Cardinality(StoredRecords(store)) > 1
    /\ \E k \in StoredRecords(store) : HasKey(JSONparse(store[k]).val, "TIme")

\* the same record with its fields constructed in the opposite order, and
\* whether the keys of a value are in sorted order at every level
RECURSIVE ReverseDeep(_)
ReverseDeep(v) ==
    IF v.kind # "obj" THEN v
    ELSE LET n == Len(v.members)
         IN  JSObj([i \in 1..n |-> Member(v.members[n + 1 - i].key, ReverseDeep(v.members[n + 1 - i].val))])

RECURSIVE SortedDeep(_)
SortedDeep(v) ==
    v.kind = "obj" =>
        /\ \A i \in 1..(Len(v.members) - 1) : KeyLess(v.members[i].key, v.members[i + 1].key)
        /\ \A i \in 1..Len(v.members) : SortedDeep(v.members[i].val)

\* C8: every stored value is the canonical encoding of its record: its keys
\* are in sorted order at every nesting level, and it is the text that
\* encoding the record gives whatever the order in which the record's fields
\* were constructed, here the stored order and its reverse at every level.
C8_StoredCanonical ==
    /\ \A k \in DOMAIN store :
          LET rec == JSONparse(store[k])
          IN  /\ rec.ok
              /\ SortedDeep(rec.val)
              /\ JSONstringify(rec.val) = store[k]
              /\ Encode(rec.val) = store[k]
              /\ Encode(ReverseDeep(rec.val)) = store[k]
    /\ Succeeded("CreateAsset")
          => store[last.rid] = Encode(ReverseDeep(NewAsset(last.rid, last.args)))
    /\ Succeeded("UpdateAsset")
          => store[last.rid] = Encode(ReverseDeep(UpdatedAsset(last.rid, last.args)))

C8_Witness ==
    /\ Succeeded("UpdateAsset")
    /\ Cardinality(DOMAIN store) > 1
    /\ \E k \in DOMAIN store : HasKey(JSONparse(store[k]).val, "docType")

\* C9: InitLedger does not fail; after it key "101" holds the seed record
\* (RID "101", SID "1", Readings{BPM 100, HRV 10}, Time
\* "2023-11-04T15:30:00.000Z", Team "team3", docType "asset"), every other key
\* is as it was, and a second InitLedger changes nothing.
C9_InitLedgerSeeds ==
    last.op = "InitLedger" =>
        /\ last.err = NoError
        /\ "101" \in DOMAIN store
        /\ LET rec == JSONparse(store["101"])
           IN  /\ rec.ok
               /\ KeysOf(rec.val) = {"RID", "SID", "Readings", "Time", "Team", "docType"}
               /\ Len(rec.val.members) = Cardinality(KeysOf(rec.val))
               /\ Get(rec.val, "RID") = JSStr("101")
               /\ Get(rec.val, "SID") = JSStr("1")
               /\ Get(rec.val, "Readings") = JSObj(<<Member("BPM", JSNum("100")), Member("HRV", JSNum("10"))>>)
               /\ Get(rec.val, "Time") = JSStr("2023-11-04T15:30:00.000Z")
               /\ Get(rec.val, "Team") = JSStr("team3")
               /\ Get(rec.val, "docType") = JSStr("asset")
        /\ DOMAIN store = DOMAIN last.pre \cup {"101"}
        /\ \A k \in DOMAIN store \ {"101"} : store[k] = last.pre[k]
        /\ InitLedger(store) = Outcome(NoError, <<>>, store)

\* InitLedger ran over a key "101" that held other contents
C9_Witness ==
    /\ last.op = "InitLedger"
    /\ "101" \in DOMAIN last.pre
    /\ last.pre["101"] # store["101"]
    /\ Cardinality(DOMAIN store) > 1

(***************************************************************************)
(* Two CreateAsset invocations in flight.                                  *)
(***************************************************************************)
Finished(p) == pc[p] \in {"done", "failed"}
SameRid == targs["tx1"].rid = targs["tx2"].rid
Written(p) == Encode(NewAsset(targs[p].rid, targs[p].a))

\* C10 as stated: of two CreateAsset invocations for the same, initially
\* absent rid at most one returns success and the other fails with the
\* 'already exists' error.
C10_AtMostOneSucceeds ==
    (Finished("tx1") /\ Finished("tx2") /\ SameRid)
        => \E p, q \in Procs : p # q /\ pc[p] = "done" /\ pc[q] = "failed"

\* C10 amended: an invocation fails with 'already exists' exactly when its
\* getState ran after the other invocation's putState and so returned that
\* invocation's record; when both getState ran before either putState both
\* invocations return success; at least one returns success, and the key
\* then holds the record of an invocation that returned success.
C10_CheckThenWrite ==
    /\ \A p \in Procs :
          /\ pc[p] = "failed" => \E q \in Procs \ {p} : pc[q] = "done" /\ SameRid /\ seen[p] = Written(q)
          /\ pc[p] = "done" => seen[p] = <<>>
          /\ (Finished(p) /\ seen[p] # <<>>) => pc[p] = "failed"
    /\ (Finished("tx1") /\ Finished("tx2"))
          => /\ \E p \in Procs : pc[p] = "done"
             /\ \A p \in Procs : \E q \in Procs :
                   pc[q] = "done" /\ targs[q].rid = targs[p].rid /\ store[targs[p].rid] = Written(q)

\* both passed the existence check, both returned success, and the record
\* of one was overwritten by the other's
C10_Witness ==
    /\ pc["tx1"] = "done"
    /\ pc["tx2"] = "done"
    /\ SameRid
    /\ Written("tx1") # Written("tx2")
    /\ store[targs["tx1"].rid] = Written("tx2")
====
